---- MODULE Spec2Model ----
(***************************************************************************)
(* ZenBudget: the transaction state-and-persistence layer of script.js.    *)
(*                                                                         *)
(* The in-memory lists (transactions, filteredTransactions) are kept in    *)
(* step with one IndexedDB object store keyed by id.  Every mutating       *)
(* handler is an async function: it runs synchronously up to its await,    *)
(* which issues one readwrite request, and resumes when that request's     *)
(* onsuccess / onerror callback settles the promise.  IndexedDB runs       *)
(* readwrite transactions on the same store in the order they were         *)
(* created, and a request's callback fires before the next transaction     *)
(* starts, so the requests in flight form a FIFO queue (pending).  A        *)
(* request either succeeds, and its effect is in the store, or errors and  *)
(* leaves the store alone: these are the two outcomes the code listens     *)
(* for (request.onsuccess, request.onerror).                               *)
(*                                                                         *)
(* Text is a sequence of one-character strings.  A number is a record      *)
(* [k, v]: k = "fin" with the value v, k = "inf" with v = 1 or -1 for      *)
(* Infinity and -Infinity, k = "nan" for NaN.                              *)
(***************************************************************************)
EXTENDS Integers, Sequences, FiniteSets, TLC

VARIABLES
    phase,                 \* position of init(): "open", "load", "ready", "failed"
    db,                    \* the module-level db handle is set
    store,                 \* records of the object store 'transactions'
    transactions,          \* let transactions
    filteredTransactions,  \* let filteredTransactions
    searchInput,           \* searchInput.value
    pending,               \* IndexedDB requests in flight, oldest first
    now,                   \* last value read from the clock (ms)
    created,               \* number of transaction objects built by addTransaction
    lastNote,              \* the last message shown, <<operation, severity>>: a call
                           \* of showNotification, or <<"add", "alert">> for alert()
    promise,               \* the promise of a store function called on its own
                           \* (SpecAdapter): the function, its argument, the state
                           \* of its IndexedDB request, the calls of resolve / reject
    caches,                \* CacheStorage of the origin: cache name -> entries
    worker                 \* the service worker (SpecWorker): its stage, the cache
                           \* deletions and puts in flight, its last answer

vars == <<phase, db, store, transactions, filteredTransactions, searchInput,
          pending, now, created, lastNote, promise, caches, worker>>

(***************************************************************************)
(* Bounds of the model.                                                    *)
(***************************************************************************)
MaxTime == 0       \* the clock readings are 0..MaxTime
RandSteps == 1     \* Date.now() + Math.random() falls on t*RandSteps + (0..RandSteps)
MaxCreated == 2    \* transactions built by addTransaction in one run
MaxPending == 2    \* requests in flight at once
MaxListLen == 3    \* SpecFilter: the longest in-memory list the search runs on
MaxPuts == 1       \* SpecWorker: cache.put calls in flight at once
MaxEvents == 3     \* SpecWorker: fetch events handled in one run

(***************************************************************************)
(* Text helpers.                                                           *)
(***************************************************************************)
Str_Infinity == <<"I", "n", "f", "i", "n", "i", "t", "y">>
Str_MinusInfinity == <<"-">> \o Str_Infinity
Str_income == <<"i", "n", "c", "o", "m", "e">>
Str_expense == <<"e", "x", "p", "e", "n", "s", "e">>
Str_Income == <<"I", "n", "c", "o", "m", "e">>
Str_Food == <<"F", "o", "o", "d">>

WhiteSpace == {" "}

RECURSIVE TrimStart(_)
TrimStart(s) ==
    IF s # <<>> /\ Head(s) \in WhiteSpace THEN TrimStart(Tail(s)) ELSE s

RECURSIVE TrimEnd(_)
TrimEnd(s) ==
    IF s # <<>> /\ s[Len(s)] \in WhiteSpace
    THEN TrimEnd(SubSeq(s, 1, Len(s) - 1))
    ELSE s

\* String.prototype.trim
Trim(s) == TrimEnd(TrimStart(s))

StartsWith(s, p) == Len(s) >= Len(p) /\ SubSeq(s, 1, Len(p)) = p

\* String.prototype.includes
Includes(s, sub) ==
    \E i \in 0..(Len(s) - Len(sub)) : SubSeq(s, i + 1, i + Len(sub)) = sub

LowerOf(c) ==
    CASE c = "F" -> "f"
      [] c = "I" -> "i"
      [] c = "O" -> "o"
      [] c = "P" -> "p"
      [] c = "D" -> "d"
      [] c = "N" -> "n"
      [] OTHER -> c

\* a lower-casing that leaves every character as it is
ToLowerCase_Identity(s) == s

\* String.prototype.toLowerCase
ToLowerCase(s) == [i \in 1..Len(s) |-> LowerOf(s[i])]

(***************************************************************************)
(* Numbers.                                                                *)
(***************************************************************************)
Fin(n) == [k |-> "fin", v |-> n]
Inf(sign) == [k |-> "inf", v |-> sign]
NaN == [k |-> "nan", v |-> 0]

Digits == {"0", "1", "2", "3", "4", "5", "6", "7", "8", "9"}

DigitVal(c) ==
    CASE c = "0" -> 0 [] c = "1" -> 1 [] c = "2" -> 2 [] c = "3" -> 3
      [] c = "4" -> 4 [] c = "5" -> 5 [] c = "6" -> 6 [] c = "7" -> 7
      [] c = "8" -> 8 [] c = "9" -> 9

RECURSIVE DigitPrefix(_)
DigitPrefix(s) ==
    IF s # <<>> /\ Head(s) \in Digits
    THEN <<Head(s)>> \o DigitPrefix(Tail(s))
    ELSE <<>>

RECURSIVE DecimalValue(_)
DecimalValue(ds) ==
    IF ds = <<>> THEN 0
    ELSE 10 * DecimalValue(SubSeq(ds, 1, Len(ds) - 1)) + DigitVal(ds[Len(ds)])

\* parseFloat on text without a fraction or an exponent: leading white space
\* is skipped, then an optional sign, then "Infinity" or the longest run of
\* digits; anything after it is ignored; no digits at all is NaN.
ParseFloat(s) ==
    LET u == TrimStart(s)
        signed == u # <<>> /\ Head(u) \in {"+", "-"}
        sign == IF u # <<>> /\ Head(u) = "-" THEN -1 ELSE 1
        body == IF signed THEN Tail(u) ELSE u
        ds == DigitPrefix(body)
    IN  IF StartsWith(body, Str_Infinity) THEN Inf(sign)
        ELSE IF ds = <<>> THEN NaN
        ELSE Fin(sign * DecimalValue(ds))

\* isNaN(x)
IsNaN(x) == x.k = "nan"

\* x >= 0 on numbers: false for NaN, true for Infinity, false for -Infinity
GeZero(x) == x.k # "nan" /\ x.v >= 0

\* x > 0 on numbers
GtZero(x) == x.k # "nan" /\ x.v > 0

\* Math.abs(x)
Abs(x) ==
    CASE x.k = "fin" -> Fin(IF x.v < 0 THEN -x.v ELSE x.v)
      [] x.k = "inf" -> Inf(1)
      [] x.k = "nan" -> NaN

\* x + y: NaN is absorbing, Infinity + -Infinity is NaN
Plus(x, y) ==
    CASE x.k = "nan" \/ y.k = "nan" -> NaN
      [] x.k = "fin" /\ y.k = "fin" -> Fin(x.v + y.v)
      [] x.k = "inf" /\ y.k = "fin" -> x
      [] x.k = "fin" /\ y.k = "inf" -> y
      [] x.k = "inf" /\ y.k = "inf" -> IF x.v = y.v THEN x ELSE NaN

\* x - y
Minus(x, y) ==
    Plus(x, CASE y.k = "fin" -> Fin(-y.v)
              [] y.k = "inf" -> Inf(-y.v)
              [] y.k = "nan" -> NaN)

\* (x / y) * 100 for x >= 0 and y > 0, as an exact fraction n / d when both
\* are finite (rounding is left out); finite / Infinity is 0 and
\* Infinity / Infinity is NaN
PercentOf(x, y) ==
    CASE x.k = "nan" \/ y.k = "nan" -> NaN
      [] x.k = "fin" /\ y.k = "fin" -> [k |-> "ratio", n |-> 100 * x.v, d |-> y.v]
      [] x.k = "fin" /\ y.k = "inf" -> Fin(0)
      [] x.k = "inf" /\ y.k = "fin" -> x
      [] x.k = "inf" /\ y.k = "inf" -> NaN

(***************************************************************************)
(* Transactions.                                                           *)
(***************************************************************************)
\* a derivation that takes a zero amount for an expense
TypeOf_StrictlyPositive(amount) ==
    IF amount.k # "nan" /\ amount.v > 0 THEN Str_income ELSE Str_expense

\* amount >= 0 ? 'income' : 'expense'
TypeOf(amount) == IF GeZero(amount) THEN Str_income ELSE Str_expense

\* Date.now() + Math.random(): the clock reading t plus a fraction in [0, 1).
\* A double near a present-day timestamp has a fixed number of fraction
\* steps per millisecond (RandSteps here), and a fraction close to 1 rounds
\* up to the next whole millisecond: r ranges over 0..RandSteps.
NewId(t, r) == t * RandSteps + r

\* the object literal of addTransaction; date is the timestamp that
\* toISOString() writes and new Date(date) reads back, exact to the ms
MakeTransaction(t, r, name, amount, category) ==
    [id |-> NewId(t, r), name |-> name, amount |-> amount,
     category |-> category, date |-> t, type |-> TypeOf(amount)]

\* !name || isNaN(amount) || !category
InvalidInputs(name, amount, category) ==
    name = <<>> \/ IsNaN(amount) \/ category = <<>>

\* a validation that shows the alert and goes on to save
ValidateInputs_NoReturn(name, amount, category) ==
    [alert |-> InvalidInputs(name, amount, category), return |-> FALSE]

\* if (...) { alert('Please fill in all fields correctly.'); return; }
ValidateInputs(name, amount, category) ==
    [alert |-> InvalidInputs(name, amount, category),
     return |-> InvalidInputs(name, amount, category)]

Ids(list) == {list[i].id : i \in 1..Len(list)}
Keys(s) == {x.id : x \in s}

(***************************************************************************)
(* The object store (keyPath: 'id').                                       *)
(***************************************************************************)
\* store.put(transaction): a record with the same key is replaced
StorePut(s, t) == {x \in s : x.id # t.id} \cup {t}

\* a delete that reports success and leaves the record in place
StoreDelete_KeepsRecord(s, id) == s

\* store.delete(id): deleting an absent key succeeds and changes nothing
StoreDelete(s, id) == {x \in s : x.id # id}

\* store.clear()
StoreClear(s) == {}

\* store.getAll(): every record, in ascending key order
RECURSIVE StoreGetAll(_)
StoreGetAll(s) ==
    IF s = {} THEN <<>>
    ELSE LET m == CHOOSE x \in s : \A y \in s : x.id <= y.id
         IN  <<m>> \o StoreGetAll(s \ {m})

\* transactions.sort((a, b) => new Date(b.date) - new Date(a.date)):
\* a stable sort, newest date first
RECURSIVE InsertByDate(_, _)
InsertByDate(sorted, t) ==
    IF sorted = <<>> THEN <<t>>
    ELSE IF Head(sorted).date >= t.date
         THEN <<Head(sorted)>> \o InsertByDate(Tail(sorted), t)
         ELSE <<t>> \o sorted

RECURSIVE SortByDate(_)
SortByDate(list) ==
    IF list = <<>> THEN <<>>
    ELSE InsertByDate(SortByDate(SubSeq(list, 1, Len(list) - 1)), list[Len(list)])

(***************************************************************************)
(* Inputs.                                                                 *)
(***************************************************************************)
Form(name, amount, category) ==
    [name |-> name, amount |-> amount, category |-> category]

\* What the user can submit: the values of the name, amount and category
\* inputs.  The first three pass the validation of addTransaction.
Forms ==
    { Form(<<" ", "P", "a", "y">>, <<"0">>, Str_Income),
      Form(<<"f", "e", "e">>, <<"-", "3">>, Str_Food),
      Form(<<"f", "e", "e">>, Str_MinusInfinity, Str_Food),
      Form(<<" ">>, <<"5">>, Str_Food),
      Form(<<"f", "e", "e">>, <<"x">>, Str_Food),
      Form(<<"f", "e", "e">>, <<"5">>, <<>>) }

\* What the user can type into the search box.
SearchValues == { <<>>, <<" ", "F", "O", "O">> }

\* Records left in the store by earlier sessions (written by addTransaction).
OldPay == MakeTransaction(-2, 0, <<"P", "a", "y">>, Fin(5), Str_Income)
OldFee == MakeTransaction(-1, 0, <<"f", "e", "e">>, Fin(-3), Str_Food)
InitialStores == { {}, {OldPay, OldFee} }

NoTransaction == MakeTransaction(0, 0, <<>>, NaN, <<>>)

Request(op, t) == [op |-> op, txn |-> t, status |-> "queued"]

\* the promise a store function returns: request is the state of its
\* IndexedDB request ("none": no request was made), calls lists the calls of
\* resolve and reject made so far
Promise(op, t, request, calls) ==
    [op |-> op, txn |-> t, request |-> request, calls |-> calls]

NoCall == Promise("none", NoTransaction, "none", <<>>)

\* CacheStorage without any cache
NoCaches == [name \in {} |-> {}]

\* the service worker before sw.js is registered
NoWorker == [stage |-> "none"]

Memory(list, filtered) ==
    [transactions |-> list, filteredTransactions |-> filtered]

(***************************************************************************)
(* The handlers, as functions of the state they read.                      *)
(***************************************************************************)
\* filterTransactions: the filtered view for a search box value
FilterList(value, list) ==
    LET searchTerm == Trim(ToLowerCase(value))
        Match(t) == \/ Includes(ToLowerCase(t.name), searchTerm)
                    \/ Includes(ToLowerCase(t.category), searchTerm)
                    \/ Includes(ToLowerCase(t.type), searchTerm)
    IN  IF searchTerm = <<>> THEN list ELSE SelectSeq(list, Match)

\* totals that add up the expenses with their sign
RECURSIVE Totals_Signed(_)
Totals_Signed(list) ==
    IF list = <<>> THEN [income |-> Fin(0), expense |-> Fin(0)]
    ELSE LET acc == Totals_Signed(SubSeq(list, 1, Len(list) - 1))
             transaction == list[Len(list)]
         IN  IF transaction.type = Str_income
             THEN [acc EXCEPT !.income = Plus(@, transaction.amount)]
             ELSE [acc EXCEPT !.expense = Plus(@, transaction.amount)]

\* updateBalance: transactions.reduce(...) from { income: 0, expense: 0 }
RECURSIVE Totals(_)
Totals(list) ==
    IF list = <<>> THEN [income |-> Fin(0), expense |-> Fin(0)]
    ELSE LET acc == Totals(SubSeq(list, 1, Len(list) - 1))
             transaction == list[Len(list)]
         IN  IF transaction.type = Str_income
             THEN [acc EXCEPT !.income = Plus(@, transaction.amount)]
             ELSE [acc EXCEPT !.expense = Plus(@, Abs(transaction.amount))]

\* updateBalance: const totalBalance = totals.income - totals.expense
TotalBalance(list) == Minus(Totals(list).income, Totals(list).expense)

\* updateSpendingSummary: transactions.filter(t => t.type === 'expense')
ExpenseTransactions(list) == SelectSeq(list, LAMBDA t : t.type = Str_expense)

\* updateSpendingSummary: expenseTransactions.reduce(...) from 0
RECURSIVE TotalExpenses(_)
TotalExpenses(expenses) ==
    IF expenses = <<>> THEN Fin(0)
    ELSE Plus(TotalExpenses(SubSeq(expenses, 1, Len(expenses) - 1)),
              Abs(expenses[Len(expenses)].amount))

\* updateSpendingSummary: the object `categories` after the forEach, as the
\* sequence of its entries in the order the categories were first met
\* (category names are not names of properties of Object.prototype)
RECURSIVE GroupByCategory(_)
GroupByCategory(expenses) ==
    IF expenses = <<>> THEN <<>>
    ELSE LET categories == GroupByCategory(SubSeq(expenses, 1, Len(expenses) - 1))
             transaction == expenses[Len(expenses)]
             amount == Abs(transaction.amount)
             at == {i \in 1..Len(categories) :
                      categories[i].category = transaction.category}
         IN  IF at = {}
             THEN Append(categories, [category |-> transaction.category,
                                      amount |-> Plus(Fin(0), amount)])
             ELSE [categories EXCEPT ![CHOOSE i \in at : TRUE].amount =
                                        Plus(@, amount)]

\* updateSpendingSummary: one progress bar per entry of `categories`, none
\* when there is no expense
CategoryBreakdown(list) ==
    LET expenses == ExpenseTransactions(list)
        totalExpenses == TotalExpenses(expenses)
        categories == GroupByCategory(expenses)
    IN  [i \in 1..Len(categories) |->
           [category |-> categories[i].category,
            amount |-> categories[i].amount,
            percentage |-> IF GtZero(totalExpenses)
                           THEN PercentOf(categories[i].amount, totalExpenses)
                           ELSE Fin(0)]]

\* a load that keeps the order of getAll (ascending key)
LoadedList_Unsorted(s) == StoreGetAll(s)

\* loadTransactions, request.onsuccess
LoadedList(s) == SortByDate(StoreGetAll(s))

\* an add that updates the lists whether or not the put succeeded
AddTransactionSettled_NoRollback(t, ok) ==
    Memory(<<t>> \o transactions, <<t>> \o transactions)

\* an add that appends (push) where the code prepends (unshift)
AddTransactionSettled_Append(t, ok) ==
    IF ok
    THEN Memory(Append(transactions, t), Append(transactions, t))
    ELSE Memory(transactions, filteredTransactions)

\* an add that filters the new list by the search box instead of showing it all
AddTransactionSettled_Refilters(t, ok) ==
    IF ok
    THEN Memory(<<t>> \o transactions,
                FilterList(searchInput, <<t>> \o transactions))
    ELSE Memory(transactions, filteredTransactions)

\* addTransaction after `await saveTransaction(transaction)`: the try block
\* when the promise resolved, the catch block when it rejected
AddTransactionSettled(t, ok) ==
    IF ok
    THEN Memory(<<t>> \o transactions, <<t>> \o transactions)
    ELSE Memory(transactions, filteredTransactions)

\* a delete that updates the lists whether or not the store delete succeeded
DeleteClickSettled_MemoryFirst(t, ok) ==
    Memory(SelectSeq(transactions, LAMBDA x : x.id # t.id),
           SelectSeq(filteredTransactions, LAMBDA x : x.id # t.id))

\* a delete that takes the transaction out of the list and leaves the view
DeleteClickSettled_KeepsView(t, ok) ==
    IF ok
    THEN Memory(SelectSeq(transactions, LAMBDA x : x.id # t.id),
                filteredTransactions)
    ELSE Memory(transactions, filteredTransactions)

\* the delete button's click handler after `await deleteTransaction(id)`
DeleteClickSettled(t, ok) ==
    IF ok
    THEN Memory(SelectSeq(transactions, LAMBDA x : x.id # t.id),
                SelectSeq(filteredTransactions, LAMBDA x : x.id # t.id))
    ELSE Memory(transactions, filteredTransactions)

\* a clearAll that empties the lists whether or not the store clear succeeded
ClearAllTransactionsSettled_IgnoresFailure(ok) == Memory(<<>>, <<>>)

\* clearAllTransactions after `await clearAllTransactionsFromDB()`
ClearAllTransactionsSettled(ok) ==
    IF ok
    THEN Memory(<<>>, <<>>)
    ELSE Memory(transactions, filteredTransactions)

\* a handler that reports every outcome as a success
Notification_AlwaysSuccess(op, ok) == <<op, "success">>

\* the showNotification call that ends each handler
Notification(op, ok) == <<op, IF ok THEN "success" ELSE "error">>

\* the effect of a request on the object store once IndexedDB runs it
StoreAfter(req, s) ==
    CASE req.op = "put" -> StorePut(s, req.txn)
      [] req.op = "delete" -> StoreDelete(s, req.txn.id)
      [] req.op = "clear" -> StoreClear(s)

\* handlers that go on as if every request had succeeded
HandlerSettled_Unchecked(req, ok) ==
    CASE req.op = "put" -> AddTransactionSettled(req.txn, TRUE)
      [] req.op = "delete" -> DeleteClickSettled(req.txn, TRUE)
      [] req.op = "clear" -> ClearAllTransactionsSettled(TRUE)

\* the rest of the handler that awaits req, run when the promise settles
HandlerSettled(req, ok) ==
    CASE req.op = "put" -> AddTransactionSettled(req.txn, ok)
      [] req.op = "delete" -> DeleteClickSettled(req.txn, ok)
      [] req.op = "clear" -> ClearAllTransactionsSettled(ok)

NoteOp(req) ==
    CASE req.op = "put" -> "add"
      [] req.op = "delete" -> "delete"
      [] req.op = "clear" -> "clear"

(***************************************************************************)
(* Initial state: the page has loaded, init() has not yet run.             *)
(***************************************************************************)
Init ==
    /\ phase = "open"
    /\ db = FALSE
    /\ store \in InitialStores
    /\ transactions = <<>>
    /\ filteredTransactions = <<>>
    /\ searchInput = <<>>
    /\ pending = <<>>
    /\ now = 0
    /\ created = 0
    /\ lastNote = <<"none", "none">>
    /\ promise = NoCall
    /\ caches = NoCaches
    /\ worker = NoWorker

(***************************************************************************)
(* init(): open the database, then load; the handlers are registered only  *)
(* when both awaits resolved.                                              *)
(***************************************************************************)
InitIndexedDB ==
    /\ phase = "open"
    /\ \E ok \in BOOLEAN :
         IF ok
         THEN db' = TRUE /\ phase' = "load"
         ELSE db' = db /\ phase' = "failed"
    /\ UNCHANGED <<store, transactions, filteredTransactions, searchInput,
                   pending, now, created, lastNote, promise, caches, worker>>

LoadTransactions ==
    /\ phase = "load"
    /\ IF ~db
       THEN /\ transactions' = <<>>
            /\ filteredTransactions' = <<>>
            /\ phase' = "ready"
       ELSE \E ok \in BOOLEAN :
              IF ok
              THEN /\ transactions' = LoadedList(store)
                   /\ filteredTransactions' = LoadedList(store)
                   /\ phase' = "ready"
              ELSE /\ transactions' = <<>>
                   /\ filteredTransactions' = <<>>
                   /\ phase' = "failed"
    /\ UNCHANGED <<db, store, searchInput, pending, now, created, lastNote, promise, caches, worker>>

(***************************************************************************)
(* The handlers up to their await.                                         *)
(***************************************************************************)
\* addTransaction: validation, the transaction object, saveTransaction's put
AddTransaction(f) ==
    /\ phase = "ready"
    /\ LET name == Trim(f.name)
           amount == ParseFloat(f.amount)
           category == f.category
           checked == ValidateInputs(name, amount, category)
           shown == IF checked.alert THEN <<"add", "alert">> ELSE lastNote
       IN  IF checked.return
           THEN /\ lastNote' = shown
                /\ UNCHANGED <<pending, now, created>>
           ELSE /\ created < MaxCreated
                /\ \E t \in now..(IF now < MaxTime THEN now + 1 ELSE now),
                      r \in 0..RandSteps :
                     LET txn == MakeTransaction(t, r, name, amount, category)
                     IN  /\ now' = t
                         /\ created' = created + 1
                         /\ IF db
                            THEN /\ Len(pending) < MaxPending
                                 /\ pending' = Append(pending, Request("put", txn))
                                 /\ lastNote' = shown
                            ELSE /\ pending' = pending
                                 /\ lastNote' = Notification("add", FALSE)
    /\ UNCHANGED <<phase, db, store, transactions, filteredTransactions, searchInput, promise, caches, worker>>

\* a search that narrows the view left by the previous search
FilterTransactions_Narrowing(value) ==
    /\ phase = "ready"
    /\ value # searchInput
    /\ searchInput' = value
    /\ filteredTransactions' = FilterList(value, filteredTransactions)
    /\ UNCHANGED <<phase, db, store, transactions, pending, now, created, lastNote, promise, caches, worker>>

\* filterTransactions, on every input event of the search box
FilterTransactions(value) ==
    /\ phase = "ready"
    /\ value # searchInput
    /\ searchInput' = value
    /\ filteredTransactions' = FilterList(value, transactions)
    /\ UNCHANGED <<phase, db, store, transactions, pending, now, created, lastNote, promise, caches, worker>>

\* the click handler of the delete button rendered for filteredTransactions[i],
\* confirm() accepted (declined, the handler does nothing); the buttons on
\* screen are those of the last render, which follows every change of
\* filteredTransactions
DeleteClick(i) ==
    /\ phase = "ready"
    /\ i \in 1..Len(filteredTransactions)
    /\ IF db
       THEN /\ Len(pending) < MaxPending
            /\ pending' = Append(pending, Request("delete", filteredTransactions[i]))
            /\ lastNote' = lastNote
       ELSE /\ pending' = pending
            /\ lastNote' = Notification("delete", FALSE)
    /\ UNCHANGED <<phase, db, store, transactions, filteredTransactions,
                   searchInput, now, created, promise, caches, worker>>

\* a clearAll that can be clicked before init() has registered it
ClearAllTransactions_BeforeLoad ==
    /\ IF db
       THEN /\ Len(pending) < MaxPending
            /\ pending' = Append(pending, Request("clear", NoTransaction))
            /\ lastNote' = lastNote
       ELSE /\ pending' = pending
            /\ lastNote' = Notification("clear", FALSE)
    /\ UNCHANGED <<phase, db, store, transactions, filteredTransactions,
                   searchInput, now, created, promise, caches, worker>>

\* clearAllTransactions, the click handler of the confirm button
ClearAllTransactions ==
    /\ phase = "ready"
    /\ IF db
       THEN /\ Len(pending) < MaxPending
            /\ pending' = Append(pending, Request("clear", NoTransaction))
            /\ lastNote' = lastNote
       ELSE /\ pending' = pending
            /\ lastNote' = Notification("clear", FALSE)
    /\ UNCHANGED <<phase, db, store, transactions, filteredTransactions,
                   searchInput, now, created, promise, caches, worker>>

(***************************************************************************)
(* IndexedDB.                                                              *)
(***************************************************************************)
\* IndexedDB runs the oldest request: it takes effect on the store, or fails
RequestProcessed ==
    /\ pending # <<>>
    /\ Head(pending).status = "queued"
    /\ \E ok \in BOOLEAN :
         /\ store' = IF ok THEN StoreAfter(Head(pending), store) ELSE store
         /\ pending' = [pending EXCEPT ![1].status = IF ok THEN "ok" ELSE "err"]
    /\ UNCHANGED <<phase, db, transactions, filteredTransactions, searchInput,
                   now, created, lastNote, promise, caches, worker>>

\* request.onsuccess / request.onerror settles the promise and the awaiting
\* handler runs to its end
RequestSettled ==
    /\ pending # <<>>
    /\ Head(pending).status # "queued"
    /\ LET req == Head(pending)
           ok == req.status = "ok"
           mem == HandlerSettled(req, ok)
       IN  /\ transactions' = mem.transactions
           /\ filteredTransactions' = mem.filteredTransactions
           /\ lastNote' = Notification(NoteOp(req), ok)
    /\ pending' = Tail(pending)
    /\ UNCHANGED <<phase, db, store, searchInput, now, created, promise, caches, worker>>

Next ==
    \/ InitIndexedDB
    \/ LoadTransactions
    \/ \E f \in Forms : AddTransaction(f)
    \/ \E value \in SearchValues : FilterTransactions(value)
    \/ \E i \in 1..Len(filteredTransactions) : DeleteClick(i)
    \/ ClearAllTransactions
    \/ RequestProcessed
    \/ RequestSettled

Spec == Init /\ [][Next]_vars

(***************************************************************************)
(* The search box on its own: the application is loaded, the list holds    *)
(* any transactions added so far, and the user only types into the search  *)
(* box.                                                                    *)
(***************************************************************************)
FilterPool ==
    { MakeTransaction(1, 0, <<"f", "o", "o", "d">>, Fin(-1), <<"P", "o", "p">>),
      MakeTransaction(2, 0, <<"P", "a", "y">>, Fin(5), Str_Income),
      MakeTransaction(3, 0, <<"x">>, Fin(-2), Str_Food),
      MakeTransaction(4, 0, <<"p", "i", "n">>, Fin(0), <<"D", "i", "p">>) }

FilterValues ==
    { <<>>, <<" ">>, <<" ", "F", "O", "O">>, <<"I", "N">>, <<"P", "e">>, <<"P">>,
      <<"o", " ", "d">>, <<"f", "o", "o", "d">>, <<"d", "i", "p", " ">> }

\* the lists of up to MaxListLen distinct transactions, in any order
FilterLists ==
    { list \in UNION { [1..n -> FilterPool] : n \in 0..MaxListLen } :
        \A i, j \in 1..Len(list) : list[i] = list[j] => i = j }

InitFilter ==
    /\ phase = "ready"
    /\ db = TRUE
    /\ transactions \in FilterLists
    /\ store = {transactions[i] : i \in 1..Len(transactions)}
    /\ filteredTransactions = transactions
    /\ searchInput = <<>>
    /\ pending = <<>>
    /\ now = 0
    /\ created = 0
    /\ lastNote = <<"none", "none">>
    /\ promise = NoCall
    /\ caches = NoCaches
    /\ worker = NoWorker

NextFilter == \E value \in FilterValues : FilterTransactions(value)

SpecFilter == InitFilter /\ [][NextFilter]_vars

(***************************************************************************)
(* The store functions on their own: initIndexedDB, loadTransactions,      *)
(* saveTransaction, deleteTransaction and clearAllTransactionsFromDB are   *)
(* called one at a time, in any order and in any state of db, and each     *)
(* call's promise is followed until it settles.                            *)
(***************************************************************************)
\* store functions whose request errors without a call of reject
AdapterCallbacks_NoErrorHandler(op, event) ==
    IF event = "success" THEN <<"resolve">> ELSE <<>>

\* what the callback of a request's event calls: request.onsuccess calls
\* resolve, request.onerror calls reject, request.onupgradeneeded neither
AdapterCallbacks(op, event) ==
    CASE event = "success" -> <<"resolve">>
      [] event = "error" -> <<"reject">>
      [] event = "upgradeneeded" -> <<>>

\* the branch `if (!db)` of a store function
AdapterWithoutDb(op) ==
    IF op = "load" THEN <<"resolve">> ELSE <<"reject">>

\* the promise of the last call has settled, or nothing has been called yet
NoRequestInFlight == promise.request \notin {"pending", "upgrading"}

\* the transactions saveTransaction and deleteTransaction are called with:
\* objects built by addTransaction; the last one was built in the millisecond
\* of OldPay with a fraction that rounds up to the id of OldFee
AdapterPool ==
    { OldPay, OldFee, MakeTransaction(0, 0, <<"f", "e", "e">>, Fin(-3), Str_Food),
      MakeTransaction(-2, RandSteps, <<"P", "a", "y">>, Fin(0), Str_Income) }

\* a call of loadTransactions, saveTransaction, deleteTransaction or
\* clearAllTransactionsFromDB up to the end of the promise's executor: without
\* db no request is made; with db the request is made, unless db.transaction
\* throws (the connection of an aborted upgrade is closed), which rejects
StoreFunctionCalled(op, t) ==
    /\ NoRequestInFlight
    /\ IF ~db
       THEN promise' = Promise(op, t, "none", AdapterWithoutDb(op))
       ELSE \/ promise' = Promise(op, t, "pending", <<>>)
            \/ promise' = Promise(op, t, "none", <<"reject">>)
    /\ IF ~db /\ op = "load"
       THEN transactions' = <<>> /\ filteredTransactions' = <<>>
       ELSE UNCHANGED <<transactions, filteredTransactions>>
    /\ UNCHANGED <<phase, db, store, searchInput, pending, now, created, lastNote, caches, worker>>

InitIndexedDBCalled ==
    /\ NoRequestInFlight
    /\ promise' = Promise("open", NoTransaction, "pending", <<>>)
    /\ UNCHANGED <<phase, db, store, transactions, filteredTransactions,
                   searchInput, pending, now, created, lastNote, caches, worker>>

LoadTransactionsCalled == StoreFunctionCalled("load", NoTransaction)

SaveTransactionCalled(t) == StoreFunctionCalled("put", t)

DeleteTransactionCalled(t) == StoreFunctionCalled("delete", t)

ClearAllTransactionsFromDBCalled == StoreFunctionCalled("clear", NoTransaction)

\* an event of the open request: onupgradeneeded sets db and the request goes
\* on; onsuccess sets db; onerror leaves db as it is
OpenRequestEvent ==
    /\ promise.op = "open"
    /\ \/ /\ promise.request = "pending"
          /\ db' = TRUE
          /\ promise' = [promise EXCEPT
                           !.request = "upgrading",
                           !.calls = @ \o AdapterCallbacks("open", "upgradeneeded")]
       \/ /\ promise.request \in {"pending", "upgrading"}
          /\ db' = TRUE
          /\ promise' = [promise EXCEPT
                           !.request = "success",
                           !.calls = @ \o AdapterCallbacks("open", "success")]
       \/ /\ promise.request \in {"pending", "upgrading"}
          /\ db' = db
          /\ promise' = [promise EXCEPT
                           !.request = "error",
                           !.calls = @ \o AdapterCallbacks("open", "error")]
    /\ UNCHANGED <<phase, store, transactions, filteredTransactions,
                   searchInput, pending, now, created, lastNote, caches, worker>>

\* the getAll of loadTransactions completes
LoadRequestEvent ==
    /\ promise.op = "load"
    /\ promise.request = "pending"
    /\ \/ /\ transactions' = LoadedList(store)
          /\ filteredTransactions' = LoadedList(store)
          /\ promise' = [promise EXCEPT
                           !.request = "success",
                           !.calls = @ \o AdapterCallbacks("load", "success")]
       \/ /\ transactions' = <<>>
          /\ filteredTransactions' = <<>>
          /\ promise' = [promise EXCEPT
                           !.request = "error",
                           !.calls = @ \o AdapterCallbacks("load", "error")]
    /\ UNCHANGED <<phase, db, store, searchInput, pending, now, created, lastNote, caches, worker>>

\* the put, delete or clear of a store function completes: on success its
\* effect is in the store
WriteRequestEvent ==
    /\ promise.op \in {"put", "delete", "clear"}
    /\ promise.request = "pending"
    /\ \/ /\ store' = StoreAfter(promise, store)
          /\ promise' = [promise EXCEPT
                           !.request = "success",
                           !.calls = @ \o AdapterCallbacks(promise.op, "success")]
       \/ /\ store' = store
          /\ promise' = [promise EXCEPT
                           !.request = "error",
                           !.calls = @ \o AdapterCallbacks(promise.op, "error")]
    /\ UNCHANGED <<phase, db, transactions, filteredTransactions, searchInput,
                   pending, now, created, lastNote, caches, worker>>

NextAdapter ==
    \/ InitIndexedDBCalled
    \/ LoadTransactionsCalled
    \/ \E t \in AdapterPool : SaveTransactionCalled(t)
    \/ \E t \in AdapterPool : DeleteTransactionCalled(t)
    \/ ClearAllTransactionsFromDBCalled
    \/ OpenRequestEvent
    \/ LoadRequestEvent
    \/ WriteRequestEvent

SpecAdapter == Init /\ [][NextAdapter]_vars

(***************************************************************************)
(* The service worker (sw.js): install, activate and fetch.  A URL is a    *)
(* record of its scheme (text) and the rest; a response is a record of the *)
(* URL it answers and its status; a cache is a set of entries, one per     *)
(* URL; caches maps the names of the existing caches to their entries.     *)
(***************************************************************************)
CACHE_NAME == "zenbudget-v1.0.1"
STATIC_CACHE_NAME == "zenbudget-static-" \o CACHE_NAME

Str_http == <<"h", "t", "t", "p">>
Str_https == <<"h", "t", "t", "p", "s">>
Str_extension == <<"c", "h", "r", "o", "m", "e", "-", "e", "x", "t">>

Url(scheme, rest) == [scheme |-> scheme, rest |-> rest]

ShellUrl == Url(Str_https, "./index.html")
IconUrl == Url(Str_https, "./icons/icon-192x192.png")

\* the assets of STATIC_ASSETS the model keeps
STATIC_ASSETS == { ShellUrl, IconUrl }

Response(url, status) == [url |-> url, status |-> status]

\* undefined: what caches.match resolves to when nothing matches
NoResponse == Response(Url(<<>>, "undefined"), 0)

\* new Response('You are offline...', { status: 503, ... })
OfflineResponse == Response(Url(<<>>, "You are offline."), 503)

Entry(url, response) == [url |-> url, response |-> response]

\* the names of caches that may exist when the worker is installed: its own,
\* that of an earlier version, one named CACHE_NAME, one of another application
\* of the origin
CacheNames ==
    { STATIC_CACHE_NAME, "zenbudget-static-zenbudget-v1.0.0", CACHE_NAME, "notes-v1" }

\* what such a cache holds: an earlier copy of the shell document
OldEntries == { Entry(ShellUrl, Response(ShellUrl, 200)) }

FetchRequest(method, url, mode, destination) ==
    [method |-> method, url |-> url, mode |-> mode, destination |-> destination]

\* the requests of the page that reach the fetch listener
Requests ==
    { FetchRequest("GET", ShellUrl, "navigate", "document"),
      FetchRequest("GET", Url(Str_https, "./page"), "navigate", "document"),
      FetchRequest("GET", Url(Str_https, "./photo.png"), "no-cors", "image"),
      FetchRequest("GET", Url(Str_http, "//api/rates"), "cors", ""),
      FetchRequest("GET", Url(Str_extension, "//x/inject.js"), "no-cors", "script"),
      FetchRequest("POST", Url(Str_https, "//api/rates"), "cors", "") }

\* what fetch(request) settles with: a response (of any status), or a rejection
NetworkOutcomes == { "200", "404", "rejected" }

NetworkResponse(url, outcome) ==
    Response(url, IF outcome = "200" THEN 200 ELSE 404)

\* cache.put(request, response): the entry of that URL is replaced
CachePut(entries, url, response) ==
    {e \in entries : e.url # url} \cup {Entry(url, response)}

\* caches.open(name): the cache is created when it does not exist
CachesOpen(storage, name) ==
    IF name \in DOMAIN storage THEN storage
    ELSE [n \in DOMAIN storage \cup {name} |->
            IF n = name THEN {} ELSE storage[n]]

\* caches.delete(name)
CachesDelete(storage, name) ==
    [n \in DOMAIN storage \ {name} |-> storage[n]]

\* caches.match(request): the response stored under the URL in the first
\* cache that holds one (fetch events arrive once the worker is activated,
\* when a single cache is left)
CachesMatch(storage, url) ==
    LET holding == {n \in DOMAIN storage : \E e \in storage[n] : e.url = url}
        name == CHOOSE n \in holding : TRUE
    IN  IF holding = {} THEN NoResponse
        ELSE (CHOOSE e \in storage[name] : e.url = url).response

\* an activate that keeps the cache named CACHE_NAME
DeletedOnActivate_CacheName(cacheName) == cacheName # CACHE_NAME

\* activate: if (cacheName !== STATIC_CACHE_NAME) caches.delete(cacheName)
DeletedOnActivate(cacheName) == cacheName # STATIC_CACHE_NAME

\* a fetch listener that puts every network response into the cache
Cacheable_Always(url) == TRUE

\* fetch: the response is cached unless !event.request.url.startsWith('http')
Cacheable(url) == StartsWith(url.scheme, Str_http)

Answer(request, kind, response, network) ==
    [request |-> request, kind |-> kind, response |-> response, network |-> network]

NoPut == Entry(Url(<<>>, "none"), NoResponse)

\* the fetch listener for one event: the answer given through respondWith
\* (kind "none": respondWith is not called), what fetch(event.request) settled
\* with when it was called (network "none": it was not), and the cache.put the
\* listener starts, if any
FetchListener(storage, request, outcome) ==
    LET cachedResponse == CachesMatch(storage, request.url)
        fetchResponse == NetworkResponse(request.url, outcome)
    IN  IF request.method # "GET"
        THEN [answer |-> Answer(request, "none", NoResponse, "none"), put |-> NoPut]
        ELSE IF cachedResponse # NoResponse
        THEN [answer |-> Answer(request, "cache", cachedResponse, "none"),
              put |-> NoPut]
        ELSE IF outcome # "rejected"
        THEN [answer |-> Answer(request, "network", fetchResponse, outcome),
              put |-> IF Cacheable(request.url)
                      THEN Entry(request.url, fetchResponse)
                      ELSE NoPut]
        ELSE IF request.mode = "navigate"
        THEN [answer |-> Answer(request, "fallback",
                                CachesMatch(storage, ShellUrl), outcome),
              put |-> NoPut]
        ELSE IF request.destination = "image"
        THEN [answer |-> Answer(request, "fallback",
                                CachesMatch(storage, IconUrl), outcome),
              put |-> NoPut]
        ELSE [answer |-> Answer(request, "offline", OfflineResponse, outcome),
              put |-> NoPut]

\* keys: the cacheNames that caches.keys() resolved with; deleting: the
\* caches.delete calls that are not yet complete
Worker(stage, keys, deleting, puts, events, answer) ==
    [stage |-> stage, keys |-> keys, deleting |-> deleting, puts |-> puts,
     events |-> events, answer |-> answer]

NoAnswer ==
    Answer(FetchRequest("", Url(<<>>, ""), "", ""), "none", NoResponse, "none")

appVars == <<phase, db, store, transactions, filteredTransactions, searchInput,
             pending, now, created, lastNote, promise>>

\* sw.js has been registered and parsed; any caches of earlier versions and of
\* other applications of the origin exist
InitWorker ==
    /\ phase = "ready"
    /\ db = TRUE
    /\ store = {}
    /\ transactions = <<>>
    /\ filteredTransactions = <<>>
    /\ searchInput = <<>>
    /\ pending = <<>>
    /\ now = 0
    /\ created = 0
    /\ lastNote = <<"none", "none">>
    /\ promise = NoCall
    /\ \E names \in SUBSET CacheNames : caches = [n \in names |-> OldEntries]
    /\ worker = Worker("parsed", {}, {}, {}, 0, NoAnswer)

\* install: caches.open(STATIC_CACHE_NAME), cache.addAll(STATIC_ASSETS),
\* skipWaiting(); when addAll rejects nothing is added and the worker is
\* discarded
Install ==
    /\ worker.stage = "parsed"
    /\ \/ /\ caches' = [CachesOpen(caches, STATIC_CACHE_NAME) EXCEPT
                          ![STATIC_CACHE_NAME] =
                            {e \in @ : e.url \notin STATIC_ASSETS} \cup
                            {Entry(u, Response(u, 200)) : u \in STATIC_ASSETS}]
          /\ worker' = [worker EXCEPT !.stage = "installed"]
       \/ /\ caches' = CachesOpen(caches, STATIC_CACHE_NAME)
          /\ worker' = [worker EXCEPT !.stage = "redundant"]
    /\ UNCHANGED appVars

\* activate: caches.keys(), then caches.delete for each name that is not
\* STATIC_CACHE_NAME; the deletions run on their own
ActivateStarted ==
    /\ worker.stage = "installed"
    /\ worker' = [worker EXCEPT
                    !.stage = "activating",
                    !.keys = DOMAIN caches,
                    !.deleting = {n \in DOMAIN caches : DeletedOnActivate(n)}]
    /\ UNCHANGED <<appVars, caches>>

\* one caches.delete(cacheName) completes
CacheDeleted ==
    /\ worker.stage = "activating"
    /\ \E name \in worker.deleting :
         /\ caches' = CachesDelete(caches, name)
         /\ worker' = [worker EXCEPT !.deleting = @ \ {name}]
    /\ UNCHANGED appVars

\* activate: Promise.all(...) has resolved, clients.claim()
ActivateCompleted ==
    /\ worker.stage = "activating"
    /\ worker.deleting = {}
    /\ worker' = [worker EXCEPT !.stage = "activated"]
    /\ UNCHANGED <<appVars, caches>>

\* a fetch event: the listener runs until its answer is known
FetchEvent(request, outcome) ==
    /\ worker.stage = "activated"
    /\ worker.events < MaxEvents
    /\ LET handled == FetchListener(caches, request, outcome)
       IN  /\ handled.put # NoPut => Cardinality(worker.puts) < MaxPuts
           /\ worker' = [worker EXCEPT
                           !.events = @ + 1,
                           !.answer = handled.answer,
                           !.puts = IF handled.put = NoPut THEN @
                                    ELSE @ \cup {handled.put}]
    /\ UNCHANGED <<appVars, caches>>

\* caches.open(STATIC_CACHE_NAME).then(cache => cache.put(...)) completes: the
\* response is stored, or the put is rejected and nothing is stored
CachePutCompleted ==
    /\ \E put \in worker.puts :
         /\ worker' = [worker EXCEPT !.puts = @ \ {put}]
         /\ \/ caches' = [CachesOpen(caches, STATIC_CACHE_NAME) EXCEPT
                             ![STATIC_CACHE_NAME] = CachePut(@, put.url, put.response)]
            \/ caches' = CachesOpen(caches, STATIC_CACHE_NAME)
    /\ UNCHANGED appVars

NextWorker ==
    \/ Install
    \/ ActivateStarted
    \/ CacheDeleted
    \/ ActivateCompleted
    \/ \E request \in Requests, outcome \in NetworkOutcomes :
         FetchEvent(request, outcome)
    \/ CachePutCompleted

SpecWorker == InitWorker /\ [][NextWorker]_vars

(***************************************************************************)
(* Steps, recognised by what they do to the queue of requests.             *)
(***************************************************************************)
\* a handler issues a request for operation op
IssuedStep(op) ==
    /\ Len(pending') = Len(pending) + 1
    /\ pending'[Len(pending')].op = op

\* IndexedDB runs the oldest request, of operation op, with the given outcome
ProcessedStep(op, status) ==
    /\ pending # <<>>
    /\ Head(pending).op = op
    /\ Head(pending).status = "queued"
    /\ Len(pending') = Len(pending)
    /\ Head(pending').status = status

\* the handler awaiting the oldest request, of operation op, resumes and ends
SettledStep(op, status) ==
    /\ pending # <<>>
    /\ Head(pending).op = op
    /\ Head(pending).status = status
    /\ pending' = Tail(pending)

ListsUnchanged ==
    /\ transactions' = transactions
    /\ filteredTransactions' = filteredTransactions

\* the sign rule of the data model: income iff amount >= 0
SignRuleType(amount) ==
    IF (amount.k = "fin" /\ amount.v >= 0) \/ (amount.k = "inf" /\ amount.v = 1)
    THEN Str_income
    ELSE Str_expense

HasDuplicateId(list) ==
    \E i, j \in 1..Len(list) : i # j /\ list[i].id = list[j].id

(***************************************************************************)
(* C1: when the put issued by addTransaction is rejected, the add leaves   *)
(* transactions and filteredTransactions as they were: issuing the put     *)
(* does not touch them, the rejected put does not touch them or the store, *)
(* and the resumed handler keeps both lists and shows the error            *)
(* notification.                                                           *)
(***************************************************************************)
C1_FailedSaveLeavesLists ==
    [][ /\ IssuedStep("put") => ListsUnchanged
        /\ ProcessedStep("put", "err") => ListsUnchanged /\ store' = store
        /\ SettledStep("put", "err") =>
             ListsUnchanged /\ store' = store /\ lastNote' = <<"add", "error">>
      ]_vars

\* an add was rejected while the list held transactions and a search was active
C1_Witness ==
    /\ lastNote = <<"add", "error">>
    /\ transactions # <<>>
    /\ filteredTransactions # transactions

(***************************************************************************)
(* C2: after a successful load, whenever no request of an add, remove or   *)
(* clearAll is in flight, the ids of the in-memory list are exactly the    *)
(* keys of the object store.                                               *)
(***************************************************************************)
C2_MemoryMatchesStore ==
    (phase = "ready" /\ pending = <<>>) => Ids(transactions) = Keys(store)

\* quiescent after adds and a failed delete, with records in memory
C2_Witness ==
    /\ phase = "ready"
    /\ pending = <<>>
    /\ created = MaxCreated
    /\ lastNote = <<"delete", "error">>
    /\ Len(transactions) >= 2

(***************************************************************************)
(* C3: remove deletes from the store first: clicking delete and the store  *)
(* running the delete leave both lists alone; the lists lose the           *)
(* transaction only when the handler resumes after a successful delete, by *)
(* which time the store no longer holds its key; a rejected delete changes *)
(* neither the store nor the lists.                                        *)
(***************************************************************************)
C3_RemoveStoreFirst ==
    [][ /\ IssuedStep("delete") => ListsUnchanged /\ store' = store
        /\ ProcessedStep("delete", "ok") =>
             /\ ListsUnchanged
             /\ Head(pending).txn.id \notin Keys(store')
        /\ ProcessedStep("delete", "err") => ListsUnchanged /\ store' = store
        /\ SettledStep("delete", "err") => ListsUnchanged /\ store' = store
        /\ SettledStep("delete", "ok") =>
             /\ Head(pending).txn.id \notin Keys(store)
             /\ Head(pending).txn.id \notin Ids(transactions')
             /\ Head(pending).txn.id \notin Ids(filteredTransactions')
             /\ store' = store
      ]_vars

\* a delete was rejected and the transaction is still listed and stored
C3_Witness ==
    /\ lastNote = <<"delete", "error">>
    /\ pending = <<>>
    /\ OldFee \in store
    /\ \E i \in 1..Len(transactions) : transactions[i] = OldFee
    /\ \E i \in 1..Len(filteredTransactions) : filteredTransactions[i] = OldFee

(***************************************************************************)
(* C4: clearAll clears the store and then empties both lists; when the     *)
(* store clear is rejected the store and both lists are unchanged and the  *)
(* error notification is shown.                                            *)
(***************************************************************************)
C4_ClearAll ==
    [][ /\ IssuedStep("clear") => ListsUnchanged /\ store' = store
        /\ ProcessedStep("clear", "ok") => ListsUnchanged /\ store' = {}
        /\ ProcessedStep("clear", "err") => ListsUnchanged /\ store' = store
        /\ SettledStep("clear", "ok") =>
             /\ store = {}
             /\ store' = store
             /\ transactions' = <<>>
             /\ filteredTransactions' = <<>>
             /\ lastNote' = <<"clear", "success">>
        /\ SettledStep("clear", "err") =>
             /\ ListsUnchanged
             /\ store' = store
             /\ lastNote' = <<"clear", "error">>
      ]_vars

\* a clearAll was rejected and the records are still there
C4_Witness ==
    /\ lastNote = <<"clear", "error">>
    /\ pending = <<>>
    /\ store # {}
    /\ Len(transactions) >= 3

(***************************************************************************)
(* C5: once the handlers run, the in-memory list changes only in the step  *)
(* in which a handler resumes after its own request succeeded: a           *)
(* transaction enters the list when its put has succeeded and is in the    *)
(* store; transactions leave it when the delete of their id, or a clear,   *)
(* has succeeded in the store.  The filtered view changes only in those    *)
(* steps or when the search box changes.                                   *)
(***************************************************************************)
C5_MemoryAfterStore ==
    [][ phase = "ready" =>
          /\ transactions' # transactions =>
               \/ /\ SettledStep("put", "ok")
                  /\ Head(pending).txn \in store
                  /\ transactions' = <<Head(pending).txn>> \o transactions
               \/ /\ SettledStep("delete", "ok")
                  /\ Head(pending).txn.id \notin Keys(store)
                  /\ Ids(transactions) \ Ids(transactions') = {Head(pending).txn.id}
               \/ /\ SettledStep("clear", "ok")
                  /\ store = {}
          /\ (filteredTransactions' # filteredTransactions
                 /\ searchInput' = searchInput) =>
               \/ SettledStep("put", "ok")
               \/ SettledStep("delete", "ok")
               \/ SettledStep("clear", "ok")
      ]_vars

\* two operations overlap: a put has succeeded in the store and waits for its
\* handler while a delete is queued behind it
C5_Witness ==
    /\ Len(pending) = 2
    /\ pending[1].op = "put"
    /\ pending[1].status = "ok"
    /\ pending[2].op = "delete"
    /\ pending[1].txn \in store
    /\ pending[1].txn.id \notin Ids(transactions)

(***************************************************************************)
(* C6: a successful add builds a transaction whose type follows the sign   *)
(* rule (income iff amount >= 0), lengthens the in-memory list by exactly  *)
(* one and puts the new transaction first.                                 *)
(***************************************************************************)
C6_AddPrepends ==
    [][ SettledStep("put", "ok") =>
          LET t == Head(pending).txn
          IN  /\ t.type = SignRuleType(t.amount)
              /\ Len(transactions') = Len(transactions) + 1
              /\ Head(transactions') = t
              /\ Tail(transactions') = transactions
      ]_vars

\* an expense was added in front of earlier transactions
C6_Witness ==
    /\ lastNote = <<"add", "success">>
    /\ Len(transactions) >= 2
    /\ Head(transactions).type = Str_expense
    /\ Head(transactions).id >= 0

(***************************************************************************)
(* C7: an add that fails validation (the alert is shown) issues no store   *)
(* request and changes neither list nor the store.                         *)
(***************************************************************************)
C7_InvalidAddNoMutation ==
    [][ (lastNote' = <<"add", "alert">> /\ lastNote # <<"add", "alert">>) =>
          /\ pending' = pending
          /\ store' = store
          /\ ListsUnchanged
          /\ created' = created
      ]_vars

\* the alert was shown while the list held transactions and a request was in flight
C7_Witness ==
    /\ lastNote = <<"add", "alert">>
    /\ transactions # <<>>
    /\ pending # <<>>

(***************************************************************************)
(* C8: add accepts an input only if the name is non-empty after trimming,  *)
(* the amount parses to a finite number and the category is non-empty; an  *)
(* input that violates one of these is never persisted.  Stated on what    *)
(* reaches the store: every record written by this session has a non-empty *)
(* name, a finite amount and a non-empty category.                         *)
(***************************************************************************)
C8_OnlyValidPersisted ==
    \A x \in store :
        /\ x.name # <<>>
        /\ x.amount.k = "fin"
        /\ x.category # <<>>

(***************************************************************************)
(* C9: every transaction in the in-memory lists and every record of the    *)
(* store has type income if its amount is >= 0 and expense otherwise; a    *)
(* zero amount is income.                                                  *)
(***************************************************************************)
C9_TypeMatchesSign ==
    /\ \A x \in store : x.type = SignRuleType(x.amount)
    /\ \A i \in 1..Len(transactions) :
         transactions[i].type = SignRuleType(transactions[i].amount)
    /\ \A i \in 1..Len(filteredTransactions) :
         filteredTransactions[i].type = SignRuleType(filteredTransactions[i].amount)

\* a zero amount is stored and listed as income, next to an expense
C9_Witness ==
    /\ \E x \in store : x.amount = Fin(0) /\ x.type = Str_income
    /\ \E i \in 1..Len(transactions) :
         transactions[i].amount = Fin(0) /\ transactions[i].type = Str_income
    /\ \E i \in 1..Len(transactions) :
         transactions[i].amount = Fin(-3) /\ transactions[i].type = Str_expense

(***************************************************************************)
(* C10: no two transactions of the in-memory list share an id, and no two  *)
(* records of the store share an id.                                       *)
(***************************************************************************)
C10_UniqueIds ==
    /\ ~HasDuplicateId(transactions)
    /\ \A x, y \in store : x.id = y.id => x = y

(***************************************************************************)
(* C11: a remove whose id is no longer in the in-memory list when its      *)
(* handler resumes (the same delete button clicked twice before the first  *)
(* delete completed, or a delete overtaken by a clearAll) is not reported  *)
(* as a success and changes neither the lists nor the store.               *)
(***************************************************************************)
C11_StaleRemoveNotSuccess ==
    [][ \A status \in {"ok", "err"} :
          (SettledStep("delete", status)
             /\ Head(pending).txn.id \notin Ids(transactions)) =>
            /\ lastNote' # <<"delete", "success">>
            /\ ListsUnchanged
            /\ store' = store
      ]_vars

(***************************************************************************)
(* C12: init() never ends without the handlers registered: when opening    *)
(* the database or loading from it fails, the lists are empty and the      *)
(* application still becomes interactive (phase "ready").                  *)
(***************************************************************************)
C12_StartupFailureStaysInteractive ==
    phase \in {"open", "load", "ready"}

(***************************************************************************)
(* C13: the step in which the load succeeds leaves in transactions exactly *)
(* the records of the store, each once, newest date first, and             *)
(* filteredTransactions equal to transactions.                             *)
(***************************************************************************)
C13_LoadedListIsStoreNewestFirst ==
    [][ (phase = "load" /\ phase' = "ready") =>
          /\ Len(transactions') = Cardinality(store)
          /\ {transactions'[i] : i \in 1..Len(transactions')} = store
          /\ \A i, j \in 1..Len(transactions') :
               i < j => transactions'[i].date >= transactions'[j].date
          /\ filteredTransactions' = transactions'
      ]_vars

\* just after the load of a store with two records: the newer one is first
\* although its key is the larger one
C13_Witness ==
    /\ phase = "ready"
    /\ created = 0
    /\ lastNote = <<"none", "none">>
    /\ pending = <<>>
    /\ Len(transactions) = 2
    /\ transactions[1].date > transactions[2].date
    /\ transactions[1].id > transactions[2].id
    /\ filteredTransactions = transactions

(***************************************************************************)
(* C18: an add, remove or clearAll that reaches the store shows its one    *)
(* notification in the step in which its handler resumes, after the store  *)
(* request has resolved: nothing is shown when the request is issued or    *)
(* while the store runs it, and the notification shown on resuming names   *)
(* the operation, with severity success if the request succeeded and error *)
(* if it failed.                                                           *)
(***************************************************************************)
C18_OneNotificationAfterOutcome ==
    [][ \A op \in {"put", "delete", "clear"} :
          LET shown == CASE op = "put" -> "add"
                         [] op = "delete" -> "delete"
                         [] op = "clear" -> "clear"
          IN  /\ IssuedStep(op) => lastNote' = lastNote
              /\ \A status \in {"ok", "err"} :
                   ProcessedStep(op, status) => lastNote' = lastNote
              /\ SettledStep(op, "ok") => lastNote' = <<shown, "success">>
              /\ SettledStep(op, "err") => lastNote' = <<shown, "error">>
      ]_vars

\* the success of a delete has been shown while the next request, an add, has
\* failed in the store and its handler has not yet resumed
C18_Witness ==
    /\ lastNote = <<"delete", "success">>
    /\ pending # <<>>
    /\ Head(pending).op = "put"
    /\ Head(pending).status = "err"

(***************************************************************************)
(* Sums as the data model states them, for C16 and C17.                    *)
(***************************************************************************)
Magnitude(x) ==
    IF x.k = "fin" THEN Fin(IF x.v >= 0 THEN x.v ELSE 0 - x.v)
    ELSE IF x.k = "inf" THEN Inf(1) ELSE NaN

RECURSIVE SumOfValues(_)
SumOfValues(numbers) ==
    IF numbers = <<>> THEN 0 ELSE Head(numbers).v + SumOfValues(Tail(numbers))

\* the sum of a sequence of numbers none of which is NaN or -Infinity
SumOfNumbers(numbers) ==
    IF \E i \in 1..Len(numbers) : numbers[i].k = "inf"
    THEN Inf(1)
    ELSE Fin(SumOfValues(numbers))

\* the sum of amount (of abs(amount) when magnitude is set) over the
\* transactions of the list that have the given type
SumOverType(list, type, magnitude) ==
    LET chosen == SelectSeq(list, LAMBDA t : t.type = type)
    IN  SumOfNumbers([i \in 1..Len(chosen) |->
                        IF magnitude THEN Magnitude(chosen[i].amount)
                        ELSE chosen[i].amount])

NonNegative(x) ==
    \/ x.k = "fin" /\ x.v >= 0
    \/ x.k = "inf" /\ x.v = 1

C17_CategoryBreakdown ==
    LET breakdown == CategoryBreakdown(transactions)
        entries == 1..Len(breakdown)
        expenses == SelectSeq(transactions, LAMBDA t : t.type = Str_expense)
        total == Totals(transactions).expense
    IN  /\ {breakdown[i].category : i \in entries} =
             {expenses[i].category : i \in 1..Len(expenses)}
        /\ \A i, j \in entries :
             breakdown[i].category = breakdown[j].category => i = j
        /\ \A i \in entries :
             breakdown[i].amount =
               SumOverType(SelectSeq(transactions,
                                     LAMBDA t : t.category = breakdown[i].category),
                           Str_expense, TRUE)
        /\ SumOfNumbers([i \in entries |-> breakdown[i].amount]) = total
        /\ GtZero(total) =>
             /\ \A i \in entries :
                  /\ breakdown[i].percentage.k = "ratio"
                  /\ breakdown[i].percentage.n = 100 * breakdown[i].amount.v
                  /\ breakdown[i].percentage.d = total.v
             /\ SumOfValues([i \in entries |->
                               [v |-> breakdown[i].percentage.n]]) = 100 * total.v
        /\ ~GtZero(total) => \A i \in entries : breakdown[i].percentage = Fin(0)

(***************************************************************************)
(* Matching as the contract states it, for C14.                            *)
(***************************************************************************)
CasePairs ==
    { <<"D", "d">>, <<"F", "f">>, <<"I", "i">>, <<"N", "n">>, <<"O", "o">>,
      <<"P", "p">> }

SameLetter(a, b) == a = b \/ <<a, b>> \in CasePairs \/ <<b, a>> \in CasePairs

\* text contains query as a substring, letters compared without their case
ContainsIgnoringCase(text, query) ==
    \E at \in 0..(Len(text) - Len(query)) :
        \A j \in 1..Len(query) : SameLetter(text[at + j], query[j])

\* the query without the white space around it
TrimmedQuery(value) ==
    LET inked == {i \in 1..Len(value) : value[i] # " "}
        first == CHOOSE i \in inked : \A j \in inked : i <= j
        last == CHOOSE i \in inked : \A j \in inked : i >= j
    IN  IF inked = {} THEN <<>> ELSE SubSeq(value, first, last)

(***************************************************************************)
(* C14: a search leaves in filteredTransactions exactly the transactions   *)
(* of the in-memory list, in list order, whose name, category or type      *)
(* contains the trimmed query as a substring, case ignored; with an empty  *)
(* query it is the whole list; the search changes neither the in-memory    *)
(* list nor the store.                                                     *)
(***************************************************************************)
C14_FilterContract ==
    [][ LET query == TrimmedQuery(searchInput')
            Matches(t) == \/ ContainsIgnoringCase(t.name, query)
                          \/ ContainsIgnoringCase(t.category, query)
                          \/ ContainsIgnoringCase(t.type, query)
        IN  /\ filteredTransactions' = SelectSeq(transactions, Matches)
            /\ query = <<>> => filteredTransactions' = transactions
            /\ transactions' = transactions
            /\ store' = store
      ]_vars

\* the query " FOO" on a list of three: the view holds, in list order, the one
\* matched by its category and the one matched by its name, and not the third
C14_Witness ==
    /\ searchInput = <<" ", "F", "O", "O">>
    /\ Len(transactions) = 3
    /\ Len(filteredTransactions) = 2
    /\ filteredTransactions[1].category = Str_Food
    /\ filteredTransactions[2].name = <<"f", "o", "o", "d">>
    /\ transactions[2].name = <<"P", "a", "y">>

(***************************************************************************)
(* C15: whatever was searched before, the filtered view is the result of   *)
(* the current query on the full in-memory list: a query q2 typed after a  *)
(* query q1 gives what q2 gives when typed first.                          *)
(***************************************************************************)
C15_FilterFromFullList ==
    \A list \in FilterLists :
        transactions = list =>
          filteredTransactions = FilterList(searchInput, list)

\* the view of the query "IN" holds transactions although another query of
\* the user, with a result of its own, matches none of them
C15_Witness ==
    /\ searchInput = <<"I", "N">>
    /\ Len(filteredTransactions) = 2
    /\ \E value \in FilterValues :
         LET other == FilterList(value, transactions)
         IN  /\ other # <<>>
             /\ \A i \in 1..Len(other), j \in 1..Len(filteredTransactions) :
                  other[i] # filteredTransactions[j]

(***************************************************************************)
(* C19: loadTransactions, saveTransaction, deleteTransaction and           *)
(* clearAllTransactionsFromDB surface every failure as a rejection: when   *)
(* no request could be made (db is not set, or db.transaction threw) and   *)
(* when the request ended with an error, the promise has been rejected and *)
(* has not been resolved.                                                  *)
(***************************************************************************)
C19_FailureIsRejection ==
    (promise.op \in {"load", "put", "delete", "clear"}
       /\ promise.request \in {"none", "error"}) =>
      promise.calls = <<"reject">>

(***************************************************************************)
(* C20: the promise of every store function (initIndexedDB included) is    *)
(* settled at most once, and is settled, by exactly one call of resolve or *)
(* reject, as soon as its request has completed or it turned out that no   *)
(* request is made.                                                        *)
(***************************************************************************)
C20_SettlesExactlyOnce ==
    /\ Len(promise.calls) <= 1
    /\ promise.request \in {"success", "error"} => Len(promise.calls) = 1
    /\ (promise.op # "none" /\ promise.request = "none") => Len(promise.calls) = 1
    /\ promise.request \in {"pending", "upgrading"} => promise.calls = <<>>

\* a put was rejected by its request's error, once, and the record is not stored
C20_Witness ==
    /\ promise.op = "put"
    /\ promise.request = "error"
    /\ promise.calls = <<"reject">>
    /\ promise.txn \notin store
    /\ db

(***************************************************************************)
(* C23: in every reachable state filteredTransactions is a subsequence of  *)
(* transactions: its elements are elements of the in-memory list, in the   *)
(* same relative order.                                                    *)
(***************************************************************************)
RECURSIVE IsSubsequence(_, _)
IsSubsequence(sub, list) ==
    IF sub = <<>> THEN TRUE
    ELSE IF list = <<>> THEN FALSE
    ELSE IF Head(sub) = Head(list)
         THEN IsSubsequence(Tail(sub), Tail(list))
         ELSE IsSubsequence(sub, Tail(list))

C23_FilteredIsSubsequence == IsSubsequence(filteredTransactions, transactions)

\* a delete succeeded under an active search and a request failed after it:
\* the view is a proper, non-empty part of a longer list
C23_Witness ==
    /\ Trim(searchInput) # <<>>
    /\ lastNote[2] = "error"
    /\ filteredTransactions # <<>>
    /\ Len(filteredTransactions) < Len(transactions)
    /\ \E x \in store : x.id \notin Ids(transactions)

(***************************************************************************)
(* C24: the step in which an add resumes after its put succeeded leaves    *)
(* filteredTransactions equal to the whole in-memory list, whatever the    *)
(* search box holds; the step in which a delete resumes after its store    *)
(* delete succeeded leaves the previous filtered view without the removed  *)
(* transaction.  (So the view can hold transactions that do not match the  *)
(* search term: C24_Witness.)                                              *)
(***************************************************************************)
C24_AddShowsAllRemoveKeepsView ==
    [][ /\ SettledStep("put", "ok") =>
             /\ filteredTransactions' = transactions'
             /\ searchInput' = searchInput
        /\ SettledStep("delete", "ok") =>
             /\ filteredTransactions' =
                  SelectSeq(filteredTransactions,
                            LAMBDA x : x.id # Head(pending).txn.id)
             /\ searchInput' = searchInput
      ]_vars

\* after an add with the search term "foo" entered, the view shows a
\* transaction that does not match the term
C24_Witness ==
    /\ lastNote = <<"add", "success">>
    /\ Trim(searchInput) # <<>>
    /\ filteredTransactions = transactions
    /\ FilterList(searchInput, transactions) # filteredTransactions

(***************************************************************************)
(* C25: until init() has opened the database and the load has completed    *)
(* no handler has run: no request has been issued, no transaction built,   *)
(* nothing shown, and the list is still empty when the load fills it; once *)
(* the handlers are registered the database is open and the load never     *)
(* runs again, so it cannot overwrite a list that reflects a user's        *)
(* action.                                                                 *)
(***************************************************************************)
C25_HandlersAfterLoad ==
    [][ /\ phase # "ready" =>
             /\ pending = <<>> /\ pending' = pending
             /\ created = 0 /\ created' = created
             /\ lastNote = <<"none", "none">> /\ lastNote' = lastNote
             /\ searchInput' = searchInput
             /\ transactions = <<>>
             /\ filteredTransactions = <<>>
        /\ phase = "ready" =>
             /\ db
             /\ phase' = "ready"
      ]_vars

\* the load has filled the list and the first click, a delete, has issued its
\* request
C25_Witness ==
    /\ phase = "ready"
    /\ created = 0
    /\ Len(transactions) = 2
    /\ Len(pending) = 1
    /\ pending[1].op = "delete"
    /\ pending[1].status = "queued"
    /\ lastNote = <<"none", "none">>

(***************************************************************************)
(* C21: round trip.  A put of t that succeeds leaves a record equal to t   *)
(* on all fields in the store; a record leaves the store only by a         *)
(* successful delete of its id or a successful clear; and a successful     *)
(* load returns every record of the store.  So after a successful put of   *)
(* t, with no later delete of t.id and no later clear, a load returns a    *)
(* list that holds a record equal to t.                                    *)
(***************************************************************************)
C21_RoundTrip ==
    [][ /\ (promise.op = "put" /\ promise'.request = "success") =>
             promise.txn \in store'
        /\ \A x \in store :
             x \notin store' =>
               /\ promise'.request = "success"
               /\ \/ promise.op = "delete" /\ promise.txn.id = x.id
                  \/ promise.op = "clear"
        /\ (promise.op = "load" /\ promise'.request = "success") =>
             \A x \in store :
               \E i \in 1..Len(transactions') : transactions'[i] = x
      ]_vars

(***************************************************************************)
(* C26: when the activate step completes (Promise.all of the deletions has *)
(* resolved), every cache whose name differs from STATIC_CACHE_NAME is     *)
(* gone, those that caches.keys() listed included, and the cache named     *)
(* STATIC_CACHE_NAME exists with the entries it had when activation began, *)
(* whichever caches existed before; no step of the activation touches that *)
(* cache.                                                                  *)
(***************************************************************************)
C26_ActivateDeletesOldCaches ==
    [][ /\ (worker.stage = "activating" /\ worker'.stage = "activated") =>
             /\ DOMAIN caches' = {STATIC_CACHE_NAME}
             /\ \A u \in STATIC_ASSETS :
                  Entry(u, Response(u, 200)) \in caches'[STATIC_CACHE_NAME]
        /\ worker.stage \in {"installed", "activating"} =>
             /\ STATIC_CACHE_NAME \in DOMAIN caches
             /\ STATIC_CACHE_NAME \in DOMAIN caches'
             /\ caches'[STATIC_CACHE_NAME] = caches[STATIC_CACHE_NAME] ]_vars

\* activation has completed after caches.keys() listed the static cache and
\* three others, one of them named CACHE_NAME
C26_Witness ==
    /\ worker.stage = "activated"
    /\ worker.events = 0
    /\ worker.keys = CacheNames
    /\ CACHE_NAME \in worker.keys
    /\ DOMAIN caches = {STATIC_CACHE_NAME}

(***************************************************************************)
(* Fetch events, recognised by the count of handled events.                *)
(***************************************************************************)
FetchStep == worker'.events = worker.events + 1

PutCompletedStep == worker'.puts # worker.puts /\ worker'.puts \subseteq worker.puts

\* the responses the caches hold for a URL
CachedFor(url) ==
    { e.response : e \in { x \in UNION { caches[n] : n \in DOMAIN caches } :
                               x.url = url } }

\* what the claim says of a request that is served from the cache, of one
\* whose network fetch fails, and of one that is not a GET
AnsweredAsClaimed ==
    LET answer == worker'.answer
        request == answer.request
    IN  /\ caches' = caches
        /\ request.method # "GET" =>
             /\ answer.kind = "none"
             /\ answer.network = "none"
             /\ worker'.puts = worker.puts
        /\ (request.method = "GET" /\ CachedFor(request.url) # {}) =>
             /\ answer.kind # "none"
             /\ answer.response \in CachedFor(request.url)
             /\ answer.network = "none"
             /\ worker'.puts = worker.puts
        /\ (request.method = "GET" /\ CachedFor(request.url) = {}) =>
             /\ answer.kind # "none"
             /\ answer.network # "none"
             /\ answer.network = "rejected" =>
                  /\ worker'.puts = worker.puts
                  /\ IF request.mode = "navigate"
                     THEN answer.response \in CachedFor(ShellUrl)
                     ELSE IF request.destination = "image"
                     THEN answer.response \in CachedFor(IconUrl)
                     ELSE answer.response.status = 503
             /\ answer.network # "rejected" =>
                  /\ answer.response.url = request.url
                  /\ answer.response.status \in {200, 404}

\* the fetch event was answered with a response from the network
AnsweredFromNetwork ==
    /\ worker'.answer.request.method = "GET"
    /\ CachedFor(worker'.answer.request.url) = {}
    /\ worker'.answer.network \notin {"none", "rejected"}

\* the put of the answer's response under the request has been started
PutStarted ==
    /\ Entry(worker'.answer.request.url, worker'.answer.response) \in worker'.puts
    /\ worker'.puts \ worker.puts \subseteq
         {Entry(worker'.answer.request.url, worker'.answer.response)}

\* a put that completes stores its response under its URL in the static cache,
\* or fails and stores nothing; the other entries stay
PutCompletes ==
    \E put \in worker.puts \ worker'.puts :
        /\ DOMAIN caches' = DOMAIN caches \cup {STATIC_CACHE_NAME}
        /\ \A n \in DOMAIN caches \ {STATIC_CACHE_NAME} : caches'[n] = caches[n]
        /\ LET before == IF STATIC_CACHE_NAME \in DOMAIN caches
                         THEN caches[STATIC_CACHE_NAME] ELSE {}
               after == caches'[STATIC_CACHE_NAME]
           IN  \/ after = before
               \/ /\ put \in after
                  /\ {e \in after : e.url # put.url} = {e \in before : e.url # put.url}
                  /\ \A e \in after : e.url = put.url => e = put

====
